---- MODULE Spec2Model ----
(***************************************************************************)
(* ABNN spiking core: synapse graph and timing state, the Monte-Carlo      *)
(* traversal kernel with its per-pass spike budget, the renormalisation    *)
(* kernel, the Brain host bridge and the BrainEngine pass pipeline.        *)
(*                                                                         *)
(* Reals are fixed point in thousandths (1.0 = 1000).  Device words are    *)
(* WordBits wide; the renormalisation threshold keeps the position it has  *)
(* in a 32-bit word (0xE0000000 = 7/8 of the word range).                  *)
(***************************************************************************)
EXTENDS Integers, Sequences, FiniteSets, Bags, TLC

(* ------------------------------------------------------------------ *)
(* Bounds of the model                                                 *)
(* ------------------------------------------------------------------ *)
\* width of a device word (32 in the program)
WordBits == 10
\* event threads dispatched in one run
MaxEvents == 4
\* threads per thread group (256 in the program)
THREADGROUP_SIZE == 2
\* tauPre and tauVisit in ticks
tauScaled == 10
\* passes of one run
MaxPasses == 2001
\* passes a run started from a long-running engine goes on for
LateRun == 12
\* double-precision steps per thousandth: losses are doubles, the reward is a float
LossSteps == 4

Milli == 10 * 10 * 10
Modulus == 2 ^ WordBits
Word == 0 .. (Modulus - 1)
None == 0 - 1

(* ------------------------------------------------------------------ *)
(* Program constants                                                   *)
(* ------------------------------------------------------------------ *)
kRenormThreshold == 7 * (2 ^ (WordBits - 3))
kTickNS == 10
INPUT_RATE_HZ == 1000
_aLTP == 40
_aLTD == 20
_wMin == 1
_wMax == 1000
WIN_SIZE_ == 1000
kGain == 40
rClip == 300
kExploreFloor == 300
ExploreWarmup == 20000
rBar == 0

PASS_TEACHER == "PASS_TEACHER"
PASS_REWARD == "PASS_REWARD"

UniDraws == {0, 500, 999}

(* ------------------------------------------------------------------ *)
(* State                                                               *)
(* ------------------------------------------------------------------ *)
VARIABLES
    shape,          \* Brain: N_INPUT_, N_OUTPUT_, N_HIDDEN_, N_NRN_, N_SYN_, EVENTS_
    syn,            \* bufSyn_: sequence of [src, dst, w]
    lastFired,      \* bufLastFire_
    lastVisited,    \* bufLastVisit_
    clock,          \* bufClock_
    spikeBudget,    \* device budget counter
    reward,         \* device reward scalar
    dev,            \* device scalars published per pass: teacherRate, passFlag, exploreScale
    scal,           \* kernel scalar bindings: tauPre, tauVisit, alphaLTP, alphaLTD, wMin, wMax, kMaxSpikes
    thr,            \* traversal threads in flight: per-thread position and registers
    renorm,         \* offset of the renorm dispatch chained to this submission, None if none
    hpc,            \* position of the engine: inside its constructor, then inside run_one_pass
    teacherRate, exploreScale, rewardPasses, block, inBlock,
    winCtr, haveTeach, haveRew, winPos_, lastLoss_, spikes,
    prevLoss,       \* history: lastLoss_ before the last completed loss window
    passes,         \* number of passes started in this run
    firings,        \* history: events that stored now into lastFired in this dispatch
    lfStart,        \* history: lastFired at pass start
    written,        \* history: neurons whose lastFired was written during this pass
    teacherWrote,   \* history: outputs teacher forcing wrote in this pass
    nowHost,        \* history: clock value the host read for this pass
    wrapped,        \* history: the clock wrapped past the word range
    renormed,       \* history: a renorm kernel ran in this submission
    rngFixed,       \* uniform draw of a fixed RNG, None for a free-running RNG
    hostSynapses_,  \* Brain: host mirror of the synapse array, written by save
    modelFile,      \* model.bnn: [exists, nSyn, nNrn, syn]
    loadResult,     \* what load_model returned in this engine's constructor
    stim,           \* stimulus provider: the frames nextInput / nextExpected may return
    savedSyn,       \* history: device synapse array of the saving brain at the last save
    twin,           \* history: post-pass weight arrays of the first copy
    spikeWindow_,   \* BrainEngine: per-output spike counters of the loss window
    running_,       \* BrainEngine: the atomic flag the worker loop tests
    worker_,        \* worker threads started and not yet joined
    mpc,            \* position of the main thread inside stop_async
    calls,          \* calls the main thread has made
    lastCall,       \* history: the last call of the main thread
    passesAtStop,   \* history: passes started when stop_async cleared running_
    rate_,          \* RateFilter: IIR state, empty before the first call
    firHist_,       \* RateFilter: FIR history
    raw,            \* history: raw vector of the last process call
    dtSec,          \* history: elapsed time of the last process call
    smoothRate,     \* what the last process call returned
    cpuPc,          \* stepCPU: not called, or inside its loop
    cpuNow,         \* stepCPU: now
    cpuLastFired,   \* stepCPU: lastFired
    cpuLastVisited, \* stepCPU: lastVisited
    cpuEvent,       \* history: the event of the last iteration of stepCPU
    crawlPc,        \* TextCrawler: not constructed, or ready
    currentFileContent_, \* TextCrawler: filtered content of the loaded file
    currentSampleCount_, \* TextCrawler: samples drawn from the loaded file
    randomIndex,    \* history: start index of the last draw
    sequence,       \* what the last getRandomSequence call returned
    tokenIds        \* TokenizedDataset::loadData: tokens of the last sequence

kernelVars == <<syn, lastFired, lastVisited, clock, spikeBudget, thr, firings, written, wrapped>>
deviceVars == <<reward, dev, scal, renorm, renormed, rngFixed>>
harnessVars == <<teacherRate, exploreScale, rewardPasses, block, inBlock,
                 winCtr, haveTeach, haveRew, winPos_, lastLoss_, spikes, spikeWindow_>>
histVars == <<lfStart, teacherWrote, nowHost, passes, prevLoss>>
engineVars == <<hostSynapses_, modelFile, loadResult, stim, savedSyn, twin>>
asyncVars == <<running_, worker_, mpc, calls, lastCall, passesAtStop>>
filterVars == <<rate_, firHist_, raw, dtSec, smoothRate>>
cpuVars == <<cpuPc, cpuNow, cpuLastFired, cpuLastVisited, cpuEvent>>
crawlVars == <<crawlPc, currentFileContent_, currentSampleCount_, randomIndex, sequence, tokenIds>>
auxVars == <<asyncVars, filterVars, cpuVars, crawlVars>>
vars == <<shape, hpc, kernelVars, deviceVars, harnessVars, histVars, engineVars, auxVars>>

N == shape.nIn + shape.nOut + shape.nHidden
Neurons == 0 .. (N - 1)
Outputs == 0 .. (shape.nOut - 1)
Inputs == 0 .. (shape.nIn - 1)

(* ------------------------------------------------------------------ *)
(* Arithmetic helpers                                                  *)
(* ------------------------------------------------------------------ *)
Min(a, b) == IF a < b THEN a ELSE b
Max(a, b) == IF a > b THEN a ELSE b

\* unsigned subtraction modulo the word range
USub(a, b) == (a - b) % Modulus

\* signed fixed-point product a*b/1000, truncated toward zero like a float->int cast
MulMilli(a, b) ==
    LET p == a * b
    IN  IF p >= 0 THEN p \div Milli ELSE 0 - ((0 - p) \div Milli)

Clamp(x, lo, hi) == IF x < lo THEN lo ELSE IF x > hi THEN hi ELSE x

(* ------------------------------------------------------------------ *)
(* Traversal kernel, one event per thread                              *)
(* ------------------------------------------------------------------ *)
\* registers of one event thread; threads are anonymous, thr is a bag of them
StartThread == [pc |-> "tick", e |-> 0, w |-> 0, now |-> 0, prev |-> 0, ltp |-> FALSE]
DoneThread == [StartThread EXCEPT !.pc = "done"]

Threads == BagToSet(thr)
Move(r, r2) == (thr (-) SetToBag({r})) (+) SetToBag({r2})
AllDone == \A r \in Threads : r.pc = "done"

TickNow_fetchOld(c) == c % Modulus

\* the value a thread obtains from the atomic increment of the clock
TickNow(c) == (c + 1) % Modulus

\* exp(-dtVisit/tauVisit) by the power-of-two trick: monotone decreasing, at most 1
VisitFactor(dtVisit, tauVisit) ==
    LET y == (dtVisit * 1443) \div tauVisit
        n == y \div Milli
        f == y % Milli
    IN  IF n >= 10 THEN 0 ELSE (Milli - (f \div 2)) \div (2 ^ n)

PFire(w, dtVisit, es) ==
    (((w * VisitFactor(dtVisit, scal.tauVisit)) \div Milli) * es) \div Milli

\* the budget test of a firing attempt on the value fetch_sub returned
BudgetAborts(old) == old <= 0

ClampWeight_upperOnly(x) == IF x > scal.wMax THEN scal.wMax ELSE x

\* final store of a weight: clamp to [wMin, wMax]
ClampWeight(x) == Clamp(x, scal.wMin, scal.wMax)

\* STDP delta of one event
StdpDelta(w, ltp) ==
    IF ltp
    THEN MulMilli(scal.alphaLTP, scal.wMax - w)
    ELSE 0 - MulMilli(scal.alphaLTD, w - scal.wMin)

\* plasticity with reward modulation on reward passes, clamped
Plasticity(w, ltp) ==
    LET d == StdpDelta(w, ltp)
        m == IF dev.passFlag = PASS_REWARD THEN MulMilli(d, reward - rBar) ELSE d
    IN  ClampWeight(w + m)

\* uniform draws available to a kernel thread
Draws == IF rngFixed = None THEN UniDraws ELSE {rngFixed}

\* 1./2. edge selection by the thread-local RNG, read (src, dst, w);
\*       clock advance: atomic increment, obtain now
EvTick(r) ==
    /\ hpc = "gpu"
    /\ r.pc = "tick"
    /\ clock' = TickNow(clock)
    /\ wrapped' = (wrapped \/ clock + 1 >= Modulus)
    /\ \E e \in 1 .. Len(syn) :
          thr' = Move(r, [r EXCEPT !.pc = "visit", !.e = e, !.w = syn[e].w,
                                   !.now = TickNow(clock)])
    /\ UNCHANGED <<auxVars, shape, engineVars, hpc, syn, lastFired, lastVisited, spikeBudget,
                   firings, written, deviceVars, harnessVars, histVars>>

\* 3. visit recording: atomic exchange of lastVisited[dst] with now
EvVisit(r) ==
    /\ hpc = "gpu"
    /\ r.pc = "visit"
    /\ LET d == syn[r.e].dst IN
          /\ thr' = Move(r, [r EXCEPT !.pc = "decide", !.prev = lastVisited[d]])
          /\ lastVisited' = [lastVisited EXCEPT ![d] = r.now]
    /\ UNCHANGED <<auxVars, shape, engineVars, hpc, syn, lastFired, clock, spikeBudget,
                   firings, written, wrapped, deviceVars, harnessVars, histVars>>

\* 4. decision: dtSpike, dtVisit, pFire, uniform draw
EvDecide(r) ==
    /\ hpc = "gpu"
    /\ r.pc = "decide"
    /\ LET s       == syn[r.e].src
           dtSpike == USub(r.now, lastFired[s])
           dtVisit == USub(r.now, r.prev)
           pFire   == PFire(r.w, dtVisit, dev.exploreScale)
       IN  \E uni \in Draws :
              LET fire == dtSpike < scal.tauPre /\ uni < pFire
              IN  thr' = Move(r, [r EXCEPT !.pc = IF fire THEN "fire" ELSE "plast",
                                           !.now = IF fire THEN @ ELSE 0,
                                           !.prev = 0, !.ltp = (dtSpike < scal.tauPre)])
    /\ UNCHANGED <<auxVars, shape, engineVars, hpc, syn, lastFired, lastVisited, clock, spikeBudget,
                   firings, written, wrapped, deviceVars, harnessVars, histVars>>

\* 4b./5. a fire requires budget: atomic_fetch_sub(spikeBudget, 1) on an unsigned
\*        word, abort on a returned value <= 0, else store now into lastFired[dst]
EvFire(r) ==
    /\ hpc = "gpu"
    /\ r.pc = "fire"
    /\ spikeBudget' = USub(spikeBudget, 1)
    /\ IF BudgetAborts(spikeBudget)
       THEN UNCHANGED <<lastFired, written, firings>>
       ELSE LET d == syn[r.e].dst IN
               /\ lastFired' = [lastFired EXCEPT ![d] = r.now]
               /\ written' = written \cup {d}
               /\ firings' = firings + 1
    /\ thr' = Move(r, [r EXCEPT !.pc = "plast", !.now = 0])
    /\ UNCHANGED <<auxVars, shape, engineVars, hpc, syn, lastVisited, clock,
                   wrapped, deviceVars, harnessVars, histVars>>

\* 6./7. plasticity on this edge only, clamped on the final store
EvPlast(r) ==
    /\ hpc = "gpu"
    /\ r.pc = "plast"
    /\ syn' = [syn EXCEPT ![r.e].w = Plasticity(r.w, r.ltp)]
    /\ thr' = Move(r, DoneThread)
    /\ UNCHANGED <<auxVars, shape, engineVars, hpc, lastFired, lastVisited, clock, spikeBudget,
                   firings, written, wrapped, deviceVars, harnessVars, histVars>>

(* ------------------------------------------------------------------ *)
(* Renormalisation kernel                                              *)
(* ------------------------------------------------------------------ *)
RenormTs_keep(ts, offset) == ts
RenormTs_noGuard(ts, offset) == (ts - offset) % Modulus
RenormTs_saturate(ts, offset) == IF ts > offset THEN ts - offset ELSE ts

\* one timestamp under the renorm kernel: 0 ("never") is preserved
RenormTs(ts, offset) == IF ts > offset THEN ts - offset ELSE 0

RenormNeeded_never(c) == FALSE

\* the host's test for chaining a renorm dispatch
RenormNeeded(c) == c > kRenormThreshold

Renormalise ==
    /\ hpc = "gpu"
    /\ AllDone
    /\ renorm # None
    /\ ~renormed
    /\ lastFired' = [i \in DOMAIN lastFired |-> RenormTs(lastFired[i], renorm)]
    /\ lastVisited' = [i \in DOMAIN lastVisited |-> RenormTs(lastVisited[i], renorm)]
    /\ clock' = USub(clock, renorm)
    /\ renormed' = TRUE
    /\ UNCHANGED <<auxVars, shape, engineVars, hpc, syn, spikeBudget, thr, firings, written, wrapped,
                   reward, dev, scal, renorm, rngFixed, harnessVars, histVars>>

(* ------------------------------------------------------------------ *)
(* Brain host bridge                                                   *)
(* ------------------------------------------------------------------ *)
DispatchThreads_exact(events) == events

\* threads of one traversal dispatch: whole thread groups
DispatchThreads(events) ==
    LET groups == (events + THREADGROUP_SIZE - 1) \div THREADGROUP_SIZE
    IN  groups * THREADGROUP_SIZE

\* probability (in millionths) that inject_inputs fires an input of analogue value v
InjectProb(v) == (INPUT_RATE_HZ * kTickNS * v) \div (Milli * Milli)

ReadOutput_noLower(o) == lastFired[shape.nIn + o] < clock

\* read_outputs: output o fired iff lastFired[nIn + o] is in [clock - 1, clock)
ReadOutput(o) ==
    LET lf == lastFired[shape.nIn + o]
    IN  lf >= USub(clock, 1) /\ lf < clock

(* ------------------------------------------------------------------ *)
(* BrainEngine::run_one_pass                                           *)
(* ------------------------------------------------------------------ *)
InputValues == {0, 1000}
ExpectedValues == {0, 500, 1000}
\* losses a window can end with: zero, one double step, 0.25, 1.0
LossValues == {0, 1, 250 * LossSteps, 1000 * LossSteps}

\* target value of the block schedule
Target(b, ib) ==
    CASE b = 0 -> 1000
      [] b = 1 -> 0
      [] b = 2 -> 1000
      [] b = 3 -> 0
      [] b = 4 -> 500
      [] OTHER -> IF (ib % 5000) < 1000 THEN 500 ELSE 0

BlockLength(b) == IF b <= 2 THEN 1000 ELSE 2000

PassFlag_atFloor(tr) == IF tr >= 50 THEN PASS_TEACHER ELSE PASS_REWARD

\* passFlag = (teacherRate > 0.05f) ? PASS_TEACHER : PASS_REWARD
PassFlag(tr) == IF tr > 50 THEN PASS_TEACHER ELSE PASS_REWARD

TeacherGuard_always(now, lf) == TRUE

\* the teacher-forcing guard on an output's lastFired
TeacherGuard(now, lf) == USub(now, lf) > 1

\* static_cast<float> of a double: the nearest thousandth
ToFloat(x) ==
    LET a == IF x >= 0 THEN x ELSE 0 - x
        q == (2 * a + LossSteps) \div (2 * LossSteps)
    IN  IF x >= 0 THEN q ELSE 0 - q

\* tRate + 0.02f, the divisor of the reward
RewardDivisor(tr) == Max(tr, 50) + 20

\* kGain * delta / (tRate + 0.02f), before the clamp
RewardRaw(last, loss, tr) ==
    LET delta == ToFloat(last - loss)
        num   == kGain * delta * Milli
    IN  IF num >= 0 THEN num \div RewardDivisor(tr)
        ELSE 0 - ((0 - num) \div RewardDivisor(tr))

RewardValue_noClamp(last, loss, tr) == RewardRaw(last, loss, tr)

\* reward written at the end of a loss window
RewardValue(last, loss, tr) == Clamp(RewardRaw(last, loss, tr), 0 - rClip, rClip)

AnnealDue_noWarmup(rp, es) == es > kExploreFloor

\* the explore scale cools once the reward passes exceed the warm-up
AnnealDue(rp, es) == rp > ExploreWarmup /\ es > kExploreFloor

InjectInputs ==
    /\ hpc = "inject"
    /\ passes < MaxPasses
    /\ (passes + 1) * DispatchThreads(shape.events) <= MaxEvents
    /\ passes' = passes + 1
    /\ \E in \in [Inputs -> stim.in], u \in [Inputs -> Draws] :
          LET hit == {i \in Inputs : u[i] * Milli < InjectProb(in[i])}
          IN  /\ lastFired' = [i \in DOMAIN lastFired |-> IF i \in hit THEN clock ELSE lastFired[i]]
              /\ written' = hit
    /\ hpc' = "teacher"
    /\ UNCHANGED <<auxVars, shape, engineVars, syn, lastVisited, clock, spikeBudget, thr, firings, wrapped,
                   deviceVars, harnessVars, nowHost, lfStart, teacherWrote, prevLoss>>

\* block schedule, pass flag, explore annealing, teacher forcing, publish, encode, commit
TeacherAndEncode ==
    /\ hpc = "teacher"
    /\ LET now    == clock
           tr     == Min(teacherRate, Target(block, inBlock))
           flag   == PassFlag(tr)
           rp     == IF flag = PASS_REWARD THEN rewardPasses + 1 ELSE rewardPasses
           es     == IF AnnealDue(rp, exploreScale)
                     THEN Max(kExploreFloor, (exploreScale * 99997) \div 100000)
                     ELSE exploreScale
           grid   == DispatchThreads(shape.events)
       IN  /\ nowHost' = now
           /\ teacherRate' = tr
           /\ IF inBlock + 1 = BlockLength(block)
              THEN block' = block + 1 /\ inBlock' = 0
              ELSE block' = block /\ inBlock' = inBlock + 1
           /\ rewardPasses' = rp
           /\ exploreScale' = es
           /\ \E expected \in [Outputs -> stim.expected], u \in [Outputs -> UniDraws] :
                 LET forced == {o \in Outputs :
                                   /\ u[o] < MulMilli(expected[o], tr)
                                   /\ TeacherGuard(now, lastFired[shape.nIn + o])}
                 IN  /\ teacherWrote' = forced
                     /\ lastFired' = [i \in DOMAIN lastFired |->
                                         IF i >= shape.nIn /\ (i - shape.nIn) \in forced
                                         THEN now ELSE lastFired[i]]
                     /\ written' = written \cup {shape.nIn + o : o \in forced}
           /\ dev' = [teacherRate |-> tr, passFlag |-> flag, exploreScale |-> es]
           /\ spikeBudget' = scal.kMaxSpikes
           /\ thr' = IF grid = 0 THEN EmptyBag ELSE [x \in {StartThread} |-> grid]
           /\ renorm' = IF RenormNeeded(clock) THEN clock ELSE None
           /\ renormed' = FALSE
           /\ firings' = 0
    /\ hpc' = "gpu"
    /\ UNCHANGED <<auxVars, shape, engineVars, syn, lastVisited, clock, wrapped, reward, scal, rngFixed,
                   winCtr, haveTeach, haveRew, winPos_, lastLoss_, spikes, spikeWindow_,
                   lfStart, passes, prevLoss>>

Completed_noWait == TRUE

\* the command buffer has completed: traversal and the chained renorm have run
Completed == AllDone /\ (renorm # None => renormed)

\* cb->waitUntilCompleted()
WaitUntilCompleted ==
    /\ hpc = "gpu"
    /\ Completed
    /\ hpc' = "read"
    /\ UNCHANGED <<auxVars, shape, engineVars, kernelVars, deviceVars, harnessVars, histVars>>

\* read_outputs
ReadOutputs ==
    /\ hpc = "read"
    /\ spikes' = [o \in Outputs |-> ReadOutput(o)]
    /\ hpc' = "post"
    /\ UNCHANGED <<auxVars, shape, engineVars, kernelVars, deviceVars, histVars,
                   teacherRate, exploreScale, rewardPasses, block, inBlock,
                   winCtr, haveTeach, haveRew, winPos_, lastLoss_, spikeWindow_>>

\* run_one_pass returns to its caller, the loop test of the worker thread
ReturnPoint == IF worker_ > 0 THEN "test" ELSE "inject"

\* diagnostic window, sliding-window loss and reward; the pass returns
PostProcess ==
    /\ hpc = "post"
    /\ \E dw \in BOOLEAN, ratioHigh \in BOOLEAN, loss \in LossValues :
          LET hT  == IF dev.passFlag = PASS_TEACHER THEN haveTeach \/ dw ELSE haveTeach
              hR  == IF dev.passFlag = PASS_TEACHER THEN haveRew ELSE haveRew \/ dw
              win == (winCtr + 1 = 1000)
              cut == win /\ hT /\ hR /\ ratioHigh
              tr  == IF cut THEN Max(MulMilli(teacherRate, 950), 50) ELSE teacherRate
          IN  /\ teacherRate' = tr
              /\ winCtr' = IF win THEN 0 ELSE winCtr + 1
              /\ haveTeach' = IF win /\ hT /\ hR THEN FALSE ELSE hT
              /\ haveRew' = IF win /\ hT /\ hR THEN FALSE ELSE hR
              /\ IF winPos_ + 1 = WIN_SIZE_
                 THEN /\ reward' = RewardValue(lastLoss_, loss, tr)
                      /\ lastLoss_' = loss
                      /\ prevLoss' = lastLoss_
                      /\ winPos_' = 0
                 ELSE /\ winPos_' = winPos_ + 1
                      /\ UNCHANGED <<reward, lastLoss_, prevLoss>>
    /\ spikeWindow_' = [o \in Outputs |-> spikeWindow_[o] + (IF spikes[o] THEN 1 ELSE 0)]
    /\ spikes' = [o \in Outputs |-> FALSE]
    /\ thr' = EmptyBag
    /\ renorm' = None
    /\ renormed' = FALSE
    /\ firings' = 0
    /\ written' = {}
    /\ teacherWrote' = {}
    /\ lfStart' = lastFired
    /\ nowHost' = clock
    /\ hpc' = ReturnPoint
    /\ UNCHANGED <<auxVars, shape, engineVars, syn, lastFired, lastVisited, clock, spikeBudget, wrapped,
                   dev, scal, rngFixed, exploreScale, rewardPasses, block, inBlock, passes>>

(* ------------------------------------------------------------------ *)
(* Construction                                                        *)
(* ------------------------------------------------------------------ *)
\* no worker thread has been started and the main thread is outside the engine
AsyncIdle ==
    /\ running_ = FALSE
    /\ worker_ = 0
    /\ mpc = "idle"
    /\ calls = 0
    /\ lastCall = "none"
    /\ passesAtStop = 0

\* RateFilter constructor
FilterIdle ==
    /\ rate_ = <<>>
    /\ firHist_ = <<>>
    /\ raw = <<>>
    /\ dtSec = 0
    /\ smoothRate = <<>>

\* stepCPU has not been called
CpuIdle ==
    /\ cpuPc = "idle"
    /\ cpuNow = 0
    /\ cpuLastFired = [i \in 0 .. (shape.nNrn - 1) |-> 0]
    /\ cpuLastVisited = [i \in 0 .. (shape.nNrn - 1) |-> 0]
    /\ cpuEvent = [k |-> 0, dst |-> 0, now |-> 0, dtSpike |-> 0, dtVisit |-> 0, w |-> 0, fired |-> FALSE]

\* no TextCrawler has been constructed
CrawlIdle ==
    /\ crawlPc = "none"
    /\ currentFileContent_ = <<>>
    /\ currentSampleCount_ = 0
    /\ randomIndex = 0
    /\ sequence = <<>>
    /\ tokenIds = <<>>

AuxIdle == AsyncIdle /\ FilterIdle /\ CpuIdle /\ CrawlIdle

\* a stimulus provider that may return any frame
FreeStimulus == [in |-> InputValues, expected |-> ExpectedValues]

\* Brain constructor: hostSynapses_(synapses), value-initialised
ZeroSynapses(n) == [k \in 1 .. n |-> [src |-> 0, dst |-> 0, w |-> 0]]

\* Brain::save: header N_SYN_, N_NRN_, then the host mirror
SavedFile(sh, host) == [exists |-> TRUE, nSyn |-> sh.nSyn, nNrn |-> sh.nNrn, syn |-> host]

\* no model.bnn on disk
NoFile == [exists |-> FALSE, nSyn |-> 0, nNrn |-> 0, syn |-> <<>>]

WIn == {850}
WHH == {150}

RandomGraphs_columnMajor(sh) ==
    {[k \in 1 .. sh.nSyn |->
         IF k <= Min(sh.nSyn, sh.nIn * sh.nOut)
         THEN [src |-> (k - 1) % sh.nIn, dst |-> sh.nIn + ((k - 1) \div sh.nIn), w |-> 850]
         ELSE [src |-> sh.nIn + sh.nOut, dst |-> sh.nIn + sh.nOut, w |-> 150]]}

\* build_random_graph: dense input->output prefix, then random hidden<->hidden edges
RandomGraphs(sh) ==
    LET dense == Min(sh.nSyn, sh.nIn * sh.nOut)
        hid   == (sh.nIn + sh.nOut) .. (sh.nIn + sh.nOut + sh.nHidden - 1)
    IN  {g \in [1 .. sh.nSyn -> [src : 0 .. (sh.nIn + sh.nOut + sh.nHidden - 1),
                                 dst : 0 .. (sh.nIn + sh.nOut + sh.nHidden - 1),
                                 w : WIn \cup WHH]] :
            \A k \in 1 .. sh.nSyn :
               IF k <= dense
               THEN /\ g[k].src = (k - 1) \div sh.nOut
                    /\ g[k].dst = sh.nIn + ((k - 1) % sh.nOut)
                    /\ g[k].w \in WIn
               ELSE /\ g[k].src \in hid
                    /\ g[k].dst \in hid
                    /\ g[k].w \in WHH}

\* scalars bound to the traversal kernel
KernelScalars == [tauPre |-> tauScaled, tauVisit |-> tauScaled,
                  alphaLTP |-> _aLTP, alphaLTD |-> _aLTD,
                  wMin |-> _wMin, wMax |-> _wMax, kMaxSpikes |-> 1]

EngineShape == [nIn |-> 1, nOut |-> 1, nHidden |-> 1, nNrn |-> 3, nSyn |-> 2, events |-> 1]

\* first pass boundary at which the host sees the clock above the threshold
LateClock(grid) == ((kRenormThreshold \div grid) + 1) * grid

\* weights after long training: an edge driven down toward wMin by LTD
TrainedLow == 5

InitCommon ==
    /\ shape = EngineShape
    /\ scal = KernelScalars
    /\ spikeBudget = 0
    /\ reward = 0
    /\ dev = [teacherRate |-> 1000, passFlag |-> PASS_TEACHER, exploreScale |-> 1000]
    /\ thr = EmptyBag
    /\ renorm = None
    /\ renormed = FALSE
    /\ rngFixed = None
    /\ hpc = "inject"
    /\ teacherRate = 1000
    /\ exploreScale = 1000
    /\ rewardPasses = 0
    /\ block = 0
    /\ haveRew = FALSE
    /\ lastLoss_ = 250 * LossSteps
    /\ prevLoss = 250 * LossSteps
    /\ spikes = [o \in 0 .. (EngineShape.nOut - 1) |-> FALSE]
    /\ AuxIdle
    /\ passes = 0
    /\ firings = 0
    /\ written = {}
    /\ teacherWrote = {}
    /\ wrapped = FALSE
    /\ hostSynapses_ = ZeroSynapses(EngineShape.nSyn)
    /\ modelFile = SavedFile(EngineShape, hostSynapses_)
    /\ loadResult = FALSE
    /\ stim = FreeStimulus
    /\ twin = <<>>

\* a freshly constructed engine
InitFresh ==
    /\ InitCommon
    /\ syn \in RandomGraphs(EngineShape)
    /\ savedSyn = syn
    /\ clock = 0
    /\ lastFired = [i \in 0 .. 2 |-> 0]
    /\ lastVisited = [i \in 0 .. 2 |-> 0]
    /\ inBlock = 0
    /\ winCtr = 0
    /\ winPos_ = 0
    /\ spikeWindow_ = [o \in 0 .. (EngineShape.nOut - 1) |-> 0]
    /\ haveTeach = FALSE
    /\ nowHost = clock
    /\ lfStart = lastFired

\* a long-running engine: 999 teacher passes done, clock just above the threshold
InitLate ==
    /\ InitCommon
    /\ \E g \in RandomGraphs(EngineShape) :
          /\ syn = [k \in DOMAIN g |-> IF k = Len(g) THEN [g[k] EXCEPT !.w = TrainedLow] ELSE g[k]]
          /\ savedSyn = g
    /\ clock = LateClock(DispatchThreads(EngineShape.events))
    /\ lastFired = [i \in 0 .. 2 |-> 0]
    /\ lastVisited = [i \in 0 .. 2 |-> IF i = syn[1].dst THEN clock ELSE 0]
    /\ inBlock = 999
    /\ winCtr = 999
    /\ winPos_ = 999
    /\ spikeWindow_ \in [0 .. (EngineShape.nOut - 1) -> {0, 999}]
    /\ haveTeach = TRUE
    /\ nowHost = clock
    /\ lfStart = lastFired

Init == InitFresh \/ InitLate

Next ==
    \/ InjectInputs
    \/ TeacherAndEncode
    \/ \E r \in Threads : EvTick(r)
    \/ \E r \in Threads : EvVisit(r)
    \/ \E r \in Threads : EvDecide(r)
    \/ \E r \in Threads : EvFire(r)
    \/ \E r \in Threads : EvPlast(r)
    \/ Renormalise
    \/ WaitUntilCompleted
    \/ ReadOutputs
    \/ PostProcess

Spec == Init /\ [][Next]_vars

(* ------------------------------------------------------------------ *)
(* Host side of run_one_pass over many passes                          *)
(* ------------------------------------------------------------------ *)
\* the device is idle: the traversal grid is empty, the debug counters and the
\* loss the device's spikes lead to are drawn in PostProcess
HarnessShape == [EngineShape EXCEPT !.events = 0]

\* state shared by the profiles of the harness
InitHarnessCommon ==
    /\ shape = HarnessShape
    /\ scal = KernelScalars
    /\ syn \in RandomGraphs(HarnessShape)
    /\ savedSyn = syn
    /\ hostSynapses_ = ZeroSynapses(HarnessShape.nSyn)
    /\ modelFile = SavedFile(HarnessShape, hostSynapses_)
    /\ loadResult = FALSE
    /\ stim = FreeStimulus
    /\ twin = <<>>
    /\ clock = 0
    /\ lastFired = [i \in 0 .. (HarnessShape.nNrn - 1) |-> 0]
    /\ lastVisited = [i \in 0 .. (HarnessShape.nNrn - 1) |-> 0]
    /\ spikeBudget = 0
    /\ reward = 0
    /\ thr = EmptyBag
    /\ renorm = None
    /\ renormed = FALSE
    /\ rngFixed = None
    /\ hpc = "inject"
    /\ lastLoss_ = 250 * LossSteps
    /\ prevLoss = 250 * LossSteps
    /\ spikes = [o \in 0 .. (HarnessShape.nOut - 1) |-> FALSE]
    /\ AuxIdle
    /\ spikeWindow_ = [o \in 0 .. (HarnessShape.nOut - 1) |-> 0]
    /\ firings = 0
    /\ written = {}
    /\ teacherWrote = {}
    /\ wrapped = FALSE
    /\ nowHost = 0
    /\ lfStart = lastFired

\* a freshly constructed engine
InitHarnessFresh ==
    /\ InitHarnessCommon
    /\ dev = [teacherRate |-> 1000, passFlag |-> PASS_TEACHER, exploreScale |-> 1000]
    /\ teacherRate = 1000
    /\ exploreScale = 1000
    /\ rewardPasses = 0
    /\ block = 0
    /\ inBlock = 0
    /\ winCtr = 0
    /\ winPos_ = 0
    /\ haveTeach = FALSE
    /\ haveRew = FALSE
    /\ passes = 0

\* passes done before the warm profile: 1000 teacher passes, 19995 reward passes
WarmPasses == 20995

\* passes done before the cool profile: 1000 teacher passes, 20698 reward passes
CoolPasses == 21698

\* a long-running engine after done passes with explore scale es: block 11
\* starts at pass 19000, block 12 at pass 21000; every window so far ended with
\* loss 0.25; the diagnostic window saw either no teacher or no reward weight change
InitHarnessLate(done, es) ==
    /\ InitHarnessCommon
    /\ dev = [teacherRate |-> 0, passFlag |-> PASS_REWARD, exploreScale |-> es]
    /\ teacherRate = 0
    /\ exploreScale = es
    /\ rewardPasses = done - 1000
    /\ block = IF done < 21000 THEN 11 ELSE 12
    /\ inBlock = IF done < 21000 THEN done - 19000 ELSE done - 21000
    /\ winCtr = done % 1000
    /\ winPos_ = done % WIN_SIZE_
    /\ haveTeach \in BOOLEAN
    /\ haveRew = ~haveTeach
    /\ passes = MaxPasses - LateRun

\* five reward passes before the end of the explore warm-up
InitHarnessWarm == InitHarnessLate(WarmPasses, 1000)

\* two passes before the explore scale reaches its floor
InitHarnessCool == InitHarnessLate(CoolPasses, 1000 - (CoolPasses - 21000))

InitHarness == InitHarnessFresh \/ InitHarnessWarm \/ InitHarnessCool

NextHarness ==
    \/ InjectInputs
    \/ TeacherAndEncode
    \/ WaitUntilCompleted
    \/ ReadOutputs
    \/ PostProcess

SpecHarness == InitHarness /\ [][NextHarness]_vars

(* ------------------------------------------------------------------ *)
(* Worker thread: start_async, stop_async and the loop around a pass   *)
(* ------------------------------------------------------------------ *)
\* calls the main thread makes in one run
MaxCalls == 4

\* stim_ is null: no stimulus provider is attached
NoStimulus == [in |-> {}, expected |-> {}]

\* set_stimulus, called while no worker runs: attach a provider or pass null
SetStimulus ==
    /\ mpc = "idle"
    /\ calls < MaxCalls
    /\ worker_ = 0
    /\ stim' \in {NoStimulus, FreeStimulus} \ {stim}
    /\ calls' = calls + 1
    /\ lastCall' = "set_stimulus"
    /\ UNCHANGED <<shape, hpc, kernelVars, deviceVars, harnessVars, histVars,
                   hostSynapses_, modelFile, loadResult, savedSyn, twin,
                   running_, worker_, mpc, passesAtStop, filterVars, cpuVars, crawlVars>>

StartGuard_never(r, s) == FALSE

\* start_async returns at once while running_ is set or no stimulus is attached
StartGuard(r, s) == r \/ s = NoStimulus

\* start_async: set running_, start the worker thread at its loop test
StartAsync ==
    /\ mpc = "idle"
    /\ calls < MaxCalls
    /\ calls' = calls + 1
    /\ lastCall' = "start_async"
    /\ IF StartGuard(running_, stim)
       THEN UNCHANGED <<running_, worker_, hpc>>
       ELSE /\ running_' = TRUE
            /\ worker_' = worker_ + 1
            /\ hpc' = "test"
    /\ UNCHANGED <<shape, kernelVars, deviceVars, harnessVars, histVars, engineVars,
                   mpc, passesAtStop, filterVars, cpuVars, crawlVars>>

\* stop_async, first statement: return at once unless running_ is set
StopAsync ==
    /\ mpc = "idle"
    /\ calls < MaxCalls
    /\ calls' = calls + 1
    /\ lastCall' = "stop_async"
    /\ mpc' = IF running_ THEN "store" ELSE "idle"
    /\ UNCHANGED <<shape, hpc, kernelVars, deviceVars, harnessVars, histVars, engineVars,
                   running_, worker_, passesAtStop, filterVars, cpuVars, crawlVars>>

\* stop_async: running_.store(false)
StopStore ==
    /\ mpc = "store"
    /\ running_' = FALSE
    /\ passesAtStop' = passes
    /\ mpc' = "join"
    /\ UNCHANGED <<shape, hpc, kernelVars, deviceVars, harnessVars, histVars, engineVars,
                   worker_, calls, lastCall, filterVars, cpuVars, crawlVars>>

Joined_noWait == TRUE

\* worker_.join() returns once the worker thread has left its loop
Joined == worker_ > 0 => hpc = "exited"

\* stop_async: join the worker and return
StopJoin ==
    /\ mpc = "join"
    /\ Joined
    /\ worker_' = 0
    /\ hpc' = "inject"
    /\ mpc' = "idle"
    /\ UNCHANGED <<shape, kernelVars, deviceVars, harnessVars, histVars, engineVars,
                   running_, calls, lastCall, passesAtStop, filterVars, cpuVars, crawlVars>>

\* the worker's loop: while (running_.load()) run_one_pass();
LoopTest ==
    /\ worker_ > 0
    /\ hpc = "test"
    /\ hpc' = IF running_ THEN "inject" ELSE "exited"
    /\ UNCHANGED <<shape, kernelVars, deviceVars, harnessVars, histVars, engineVars, auxVars>>

\* an engine that has run and been stopped before, its stimulus still attached
InitAsync ==
    /\ InitHarnessCool
    /\ haveTeach = TRUE

\* the steps of the worker thread
WorkerNext ==
    \/ LoopTest
    \/ worker_ > 0 /\ InjectInputs
    \/ worker_ > 0 /\ TeacherAndEncode
    \/ worker_ > 0 /\ WaitUntilCompleted
    \/ worker_ > 0 /\ ReadOutputs
    \/ worker_ > 0 /\ PostProcess

NextAsync ==
    \/ SetStimulus
    \/ StartAsync
    \/ StopAsync
    \/ StopStore
    \/ StopJoin
    \/ WorkerNext

SpecAsync == InitAsync /\ [][NextAsync]_vars

\* the scheduler runs the worker thread, and join returns once it has exited
SpecAsyncFair == SpecAsync /\ WF_vars(WorkerNext) /\ WF_vars(StopJoin)

(* ------------------------------------------------------------------ *)
(* RateFilter: IIR low-pass with a trailing moving average             *)
(* ------------------------------------------------------------------ *)
\* bits of a float's significand (24 in the program)
MantBits == 2
\* largest exponent of a float, counted from the smallest one
ExpMax == 3
\* frames of the moving average (20 in the program)
firSize_ == 2

\* seconds are counted in units of 0.0001
FILTER_TAU == 200
dT_SEC == 9

\* floats are m * 2^e, counted in units of the smallest positive float
FloatMags == {m * (2 ^ e) : m \in 0 .. ((2 ^ MantBits) - 1), e \in 0 .. ExpMax}
FloatMax == ((2 ^ MantBits) - 1) * (2 ^ ExpMax)
Inf == 2 * FloatMax
NaN == (2 * FloatMax) + 1
FiniteFloats == FloatMags \cup {0 - m : m \in FloatMags}
IsFinite(x) == x \in FiniteFloats

RECURSIVE Mant(_)
\* significand of a positive float
Mant(f) == IF f < 2 ^ MantBits THEN f ELSE Mant(f \div 2)

\* round the magnitude n/den to the nearest float, ties to even, overflow to Inf
RoundMag(n, den) ==
    LET below == {f \in FloatMags : f * den <= n}
        above == {f \in FloatMags : f * den >= n}
        lo    == CHOOSE f \in below : \A g \in below : g <= f
    IN  IF above = {}
        THEN IF 2 * n >= ((2 * FloatMax) + (2 ^ ExpMax)) * den THEN Inf ELSE FloatMax
        ELSE LET hi == CHOOSE f \in above : \A g \in above : f <= g
             IN  IF 2 * n < (lo + hi) * den THEN lo
                 ELSE IF 2 * n > (lo + hi) * den THEN hi
                 ELSE IF Mant(lo) % 2 = 0 THEN lo ELSE hi

\* the float nearest to the real number n/den
FRound(n, den) == IF n >= 0 THEN RoundMag(n, den) ELSE 0 - RoundMag(0 - n, den)

\* float subtraction
FSub(a, b) ==
    IF a = NaN \/ b = NaN THEN NaN
    ELSE IF a = Inf \/ a = 0 - Inf THEN (IF b = a THEN NaN ELSE a)
    ELSE IF b = Inf \/ b = 0 - Inf THEN 0 - b
    ELSE FRound(a - b, 1)

\* float addition
FAdd(a, b) == IF b = NaN THEN NaN ELSE FSub(a, 0 - b)

\* float(alpha * d) with alpha = dtSec / (tau_ + dtSec) a double
Scale(dt, tau, d) == IF IsFinite(d) THEN FRound(dt * d, tau + dt) ELSE d

IirStep_away(r, x, dt, tau) == FSub(r, Scale(dt, tau, FSub(x, r)))

\* rate_[i] += float(alpha * (raw[i] - rate_[i]))
IirStep(r, x, dt, tau) == FAdd(r, Scale(dt, tau, FSub(x, r)))

RECURSIVE FrameSum(_, _)
\* avg[i] += frame[i] over the history buffer
FrameSum(h, i) == IF h = <<>> THEN 0 ELSE FAdd(FrameSum(SubSeq(h, 1, Len(h) - 1), i), h[Len(h)][i])

\* moving average over the history buffer
FirAverage(h) ==
    [i \in 1 .. Len(h[1]) |->
        LET s == FrameSum(h, i) IN IF IsFinite(s) THEN FRound(s, Len(h)) ELSE s]

\* the filter's time constant, as the engine constructs it
tau_ == FILTER_TAU

\* elapsed times of a call: the engine's, one equal to tau and one far above it
Steps == {dT_SEC, FILTER_TAU, 20 * FILTER_TAU}

\* RateFilter::process(raw, dtSec)
Process ==
    \E x \in FiniteFloats, dt \in Steps :
       LET in == <<x>>
           r0 == IF rate_ = <<>> THEN in ELSE rate_
           r1 == [i \in 1 .. Len(in) |-> IirStep(r0[i], in[i], dt, tau_)]
           h  == Append(firHist_, r1)
           h1 == IF Len(h) > firSize_ THEN Tail(h) ELSE h
       IN  /\ raw' = in
           /\ dtSec' = dt
           /\ rate_' = r1
           /\ firHist_' = h1
           /\ smoothRate' = FirAverage(h1)
    /\ UNCHANGED <<shape, hpc, kernelVars, deviceVars, harnessVars, histVars, engineVars,
                   asyncVars, cpuVars, crawlVars>>

\* a filter just constructed
InitFilter == InitHarnessFresh

NextFilter == Process

SpecFilter == InitFilter /\ [][NextFilter]_vars

(* ------------------------------------------------------------------ *)
(* BrainEngine constructor and model persistence                       *)
(* ------------------------------------------------------------------ *)
\* Brain::load: the header overwrites N_SYN_ and N_NRN_, the host mirror is
\* resized and filled from the stream; the device array is not written
BrainLoad(f) ==
    /\ shape' = [shape EXCEPT !.nSyn = f.nSyn, !.nNrn = f.nNrn]
    /\ hostSynapses_' = f.syn

\* BrainEngine::load_model, called by the constructor
LoadModel ==
    /\ hpc = "load"
    /\ IF modelFile = NoFile
       THEN /\ loadResult' = FALSE
            /\ hpc' = "build"
            /\ UNCHANGED <<shape, hostSynapses_>>
       ELSE /\ BrainLoad(modelFile)
            /\ loadResult' = TRUE
            /\ hpc' = "inject"
    /\ UNCHANGED <<auxVars, kernelVars, deviceVars, harnessVars, histVars,
                   modelFile, stim, savedSyn, twin>>

\* build_random_graph writes the device synapse array
BuildRandomGraph ==
    /\ hpc = "build"
    /\ syn' \in RandomGraphs(shape)
    /\ hpc' = "save"
    /\ UNCHANGED <<auxVars, shape, engineVars, lastFired, lastVisited, clock, spikeBudget, thr,
                   firings, written, wrapped, deviceVars, harnessVars, histVars>>

\* BrainEngine::save_model and Brain::save
SaveModel ==
    /\ hpc = "save"
    /\ modelFile' = SavedFile(shape, hostSynapses_)
    /\ savedSyn' = syn
    /\ hpc' = "inject"
    /\ UNCHANGED <<auxVars, shape, kernelVars, deviceVars, harnessVars, histVars,
                   hostSynapses_, loadResult, stim, twin>>

\* the shape the session builds its brain with
PersistShape == [nIn |-> 1, nOut |-> 1, nHidden |-> 2, nNrn |-> 4, nSyn |-> 3, events |-> 1]

\* Brain constructor and buildBuffers: the device array is a copy of the
\* value-initialised host mirror, timing state and clock are zero
FreshBrain(sh) ==
    /\ shape = sh
    /\ hostSynapses_ = ZeroSynapses(sh.nSyn)
    /\ syn = ZeroSynapses(sh.nSyn)
    /\ lastFired = [i \in 0 .. (sh.nNrn - 1) |-> 0]
    /\ lastVisited = [i \in 0 .. (sh.nNrn - 1) |-> 0]
    /\ clock = 0

\* a later session constructs the engine again, model.bnn persists
Restart ==
    /\ hpc = "inject"
    /\ shape' = PersistShape
    /\ hostSynapses_' = ZeroSynapses(PersistShape.nSyn)
    /\ syn' = ZeroSynapses(PersistShape.nSyn)
    /\ lastFired' = [i \in 0 .. (PersistShape.nNrn - 1) |-> 0]
    /\ lastVisited' = [i \in 0 .. (PersistShape.nNrn - 1) |-> 0]
    /\ clock' = 0
    /\ loadResult' = FALSE
    /\ hpc' = "load"
    /\ UNCHANGED <<auxVars, spikeBudget, thr, firings, written, wrapped, deviceVars,
                   harnessVars, histVars, modelFile, stim, savedSyn, twin>>

\* model files another build or tool may have left behind
ForeignShapes ==
    {[PersistShape EXCEPT !.nSyn = n, !.nHidden = h, !.nNrn = 2 + h] : n \in {2, 3, 4}, h \in {1, 2}}
ForeignFiles ==
    UNION {{SavedFile(sh, g) : g \in RandomGraphs(sh)} : sh \in ForeignShapes}

InitPersist ==
    /\ FreshBrain(PersistShape)
    /\ modelFile \in {NoFile} \cup ForeignFiles
    /\ loadResult = FALSE
    /\ savedSyn = <<>>
    /\ hpc = "load"
    /\ scal = KernelScalars
    /\ spikeBudget = 0
    /\ reward = 0
    /\ dev = [teacherRate |-> 1000, passFlag |-> PASS_TEACHER, exploreScale |-> 1000]
    /\ thr = EmptyBag
    /\ renorm = None
    /\ renormed = FALSE
    /\ rngFixed = None
    /\ teacherRate = 1000
    /\ exploreScale = 1000
    /\ rewardPasses = 0
    /\ block = 0
    /\ inBlock = 0
    /\ winCtr = 0
    /\ winPos_ = 0
    /\ haveTeach = FALSE
    /\ haveRew = FALSE
    /\ lastLoss_ = 250 * LossSteps
    /\ prevLoss = 250 * LossSteps
    /\ spikes = [o \in 0 .. (PersistShape.nOut - 1) |-> FALSE]
    /\ AuxIdle
    /\ spikeWindow_ = [o \in 0 .. (PersistShape.nOut - 1) |-> 0]
    /\ passes = 0
    /\ firings = 0
    /\ written = {}
    /\ teacherWrote = {}
    /\ wrapped = FALSE
    /\ nowHost = 0
    /\ lfStart = lastFired
    /\ stim = FreeStimulus
    /\ twin = <<>>

NextPersist ==
    \/ LoadModel
    \/ BuildRandomGraph
    \/ SaveModel
    \/ Restart

SpecPersist == InitPersist /\ [][NextPersist]_vars

(* ------------------------------------------------------------------ *)
(* Brain::stepCPU, the CPU reference loop                              *)
(* ------------------------------------------------------------------ *)
cpuAlphaLTP == 10
cpuAlphaLTD == 5
cpuWMin == 1
cpuWMax == 1000

\* tauPrePost = 20'000 and tauVisit = 40'000 in ticks of the model
cpuTauPrePost == tauScaled \div 2
cpuTauVisit == 2 * cpuTauPrePost

\* iterations the loop is called with
cpuIterations == cpuTauPrePost + 2

\* event record of the loop before its first iteration
NoEvent == [k |-> 0, dst |-> 0, now |-> 0, dtSpike |-> 0, dtVisit |-> 0, w |-> 0, fired |-> FALSE]

CpuDtVisit_afterStore(now, prev) == now - now

\* dtVisit = now - lastVisited[dst]
CpuDtVisit(now, prev) == now - prev

\* the weight update inside the fire branch, clamped
CpuPlasticity(w, dtSpike) ==
    Clamp(IF dtSpike < cpuTauPrePost
          THEN w + MulMilli(cpuAlphaLTP, Milli - w)
          ELSE w - MulMilli(cpuAlphaLTD, w),
          cpuWMin, cpuWMax)

\* stepCPU is entered: now = 0, local timing vectors zeroed
CallStepCPU ==
    /\ hpc = "inject"
    /\ cpuPc = "idle"
    /\ cpuPc' = "loop"
    /\ cpuNow' = 0
    /\ cpuLastFired' = [i \in 0 .. (shape.nNrn - 1) |-> 0]
    /\ cpuLastVisited' = [i \in 0 .. (shape.nNrn - 1) |-> 0]
    /\ cpuEvent' = NoEvent
    /\ UNCHANGED <<shape, hpc, kernelVars, deviceVars, harnessVars, histVars, engineVars,
                   asyncVars, filterVars, crawlVars>>

\* one iteration of the loop
StepCPU ==
    /\ cpuPc = "loop"
    /\ cpuNow < cpuIterations
    /\ \E k \in 1 .. Len(hostSynapses_), uni \in UniDraws :
          LET e       == hostSynapses_[k]
              dtSpike == cpuNow - cpuLastFired[e.src]
              dtVisit == CpuDtVisit(cpuNow, cpuLastVisited[e.dst])
              fire    == /\ dtSpike < cpuTauPrePost
                         /\ MulMilli(e.w, VisitFactor(dtVisit, cpuTauVisit)) > uni
          IN  /\ cpuLastFired' = IF fire THEN [cpuLastFired EXCEPT ![e.dst] = cpuNow]
                                 ELSE cpuLastFired
              /\ hostSynapses_' = IF fire
                                  THEN [hostSynapses_ EXCEPT ![k].w = CpuPlasticity(e.w, dtSpike)]
                                  ELSE hostSynapses_
              /\ cpuLastVisited' = [cpuLastVisited EXCEPT ![e.dst] = cpuNow]
              /\ cpuEvent' = [k |-> k, dst |-> e.dst, now |-> cpuNow, dtSpike |-> dtSpike,
                              dtVisit |-> dtVisit, w |-> e.w, fired |-> fire]
    /\ cpuNow' = cpuNow + 1
    /\ UNCHANGED <<shape, hpc, kernelVars, deviceVars, harnessVars, histVars,
                   modelFile, loadResult, stim, savedSyn, twin,
                   asyncVars, filterVars, crawlVars, cpuPc>>

\* a brain whose host mirror is loaded from a model file of one dense and one
\* hidden edge, or left zeroed
InitCPU ==
    /\ InitPersist
    /\ (modelFile = NoFile \/ (modelFile.nNrn = 3 /\ modelFile.nSyn = 2))

NextCPU ==
    \/ LoadModel
    \/ BuildRandomGraph
    \/ SaveModel
    \/ CallStepCPU
    \/ StepCPU

SpecCPU == InitCPU /\ [][NextCPU]_vars

(* ------------------------------------------------------------------ *)
(* TextCrawler and TokenizedDataset::loadData                          *)
(* ------------------------------------------------------------------ *)
sequenceLength_ == 2
samplesPerFile_ == 2
MaxFileLen == 4

\* bytes a corpus file is made of: tab, newline, space, 'a'
Chars == {9, 10, 32, 97}

RECURSIVE SeqsUpTo(_, _)
SeqsUpTo(S, n) ==
    IF n = 0 THEN {<<>>}
    ELSE LET shorter == SeqsUpTo(S, n - 1)
         IN  shorter \cup {Append(f, c) : f \in {g \in shorter : Len(g) = n - 1}, c \in S}

Files == SeqsUpTo(Chars, MaxFileLen)

\* loadFile's filter: keep printable ASCII, space and newline
Allowed(c) == (c >= 32 /\ c < 127) \/ c = 32 \/ c = 10

\* loadFile: the filtered content, newline replaced by space
RECURSIVE LoadFile(_)
LoadFile(f) ==
    IF f = <<>> THEN <<>>
    ELSE LET c == Head(f)
         IN  (IF Allowed(c) THEN <<(IF c = 10 THEN 32 ELSE c)>> ELSE <<>>) \o LoadFile(Tail(f))

\* loadFile's assertion: the filtered content holds at least sequenceLength_ characters
Loadable == {f \in Files : Len(LoadFile(f)) >= sequenceLength_}

\* resetDistribution: uniform over 0 .. size - sequenceLength_
Distribution(content) == 0 .. (Len(content) - sequenceLength_)

\* std::string::substr(pos, n): at most n characters, cut at the end of the string
Substr(str, pos, n) ==
    LET last == IF pos + n <= Len(str) THEN pos + n ELSE Len(str)
    IN  SubSeq(str, pos + 1, last)

\* CharacterTokenizer: printable ASCII in order, anything else is the token of '?'
Tokenize(text) ==
    [k \in 1 .. Len(text) |-> IF text[k] >= 32 /\ text[k] < 127 THEN text[k] - 32 ELSE 63 - 32]

\* TextCrawler constructor: loadNextFile on a file of the corpus directory
TextCrawlerCtor ==
    /\ crawlPc = "none"
    /\ \E f \in Loadable : currentFileContent_' = LoadFile(f)
    /\ currentSampleCount_' = 0
    /\ crawlPc' = "ready"
    /\ UNCHANGED <<shape, hpc, kernelVars, deviceVars, harnessVars, histVars, engineVars,
                   asyncVars, filterVars, cpuVars, randomIndex, sequence, tokenIds>>

\* one iteration of loadData: getRandomSequence (with its reload after
\* samplesPerFile_ samples), then tokenize
LoadData ==
    /\ crawlPc = "ready"
    /\ \E f \in Loadable :
          LET reload  == currentSampleCount_ >= samplesPerFile_
              content == IF reload THEN LoadFile(f) ELSE currentFileContent_
              count   == IF reload THEN 0 ELSE currentSampleCount_
          IN  /\ currentFileContent_' = content
              /\ randomIndex' \in Distribution(content)
              /\ currentSampleCount_' = count + 1
              /\ sequence' = Substr(content, randomIndex', sequenceLength_ + 1)
              /\ tokenIds' = Tokenize(sequence')
    /\ UNCHANGED <<shape, hpc, kernelVars, deviceVars, harnessVars, histVars, engineVars,
                   asyncVars, filterVars, cpuVars, crawlPc>>

InitCrawler == InitHarnessFresh

NextCrawler ==
    \/ TextCrawlerCtor
    \/ LoadData

SpecCrawler == InitCrawler /\ [][NextCrawler]_vars

(* ------------------------------------------------------------------ *)
(* Two copies of the engine in one process                             *)
(* ------------------------------------------------------------------ *)
\* one dense edge 0 -> 1, so that edge selection has one outcome
TwinShape == [nIn |-> 1, nOut |-> 1, nHidden |-> 0, nNrn |-> 2, nSyn |-> 1, events |-> 1]

\* a stimulus provider that returns the same frame on every pass
ConstantStimulus == [in |-> {1000}, expected |-> {500}]

\* what one BrainEngine instance owns: its Brain's device buffers and its
\* members; the function-local statics of run_one_pass belong to neither copy
CopyState ==
    [syn |-> syn, lastFired |-> lastFired, lastVisited |-> lastVisited, clock |-> clock,
     spikeBudget |-> spikeBudget, reward |-> reward, dev |-> dev,
     winPos_ |-> winPos_, lastLoss_ |-> lastLoss_, prevLoss |-> prevLoss, spikes |-> spikes,
     spikeWindow_ |-> spikeWindow_,
     passes |-> passes, lfStart |-> lfStart, nowHost |-> nowHost, wrapped |-> wrapped]

\* the caller turns to the other copy, which has made one pass less
SwitchCopy ==
    /\ hpc = "inject"
    /\ twin # <<>>
    /\ passes = twin.passes + 1
    /\ twin' = CopyState
    /\ syn' = twin.syn
    /\ lastFired' = twin.lastFired
    /\ lastVisited' = twin.lastVisited
    /\ clock' = twin.clock
    /\ spikeBudget' = twin.spikeBudget
    /\ reward' = twin.reward
    /\ dev' = twin.dev
    /\ winPos_' = twin.winPos_
    /\ lastLoss_' = twin.lastLoss_
    /\ prevLoss' = twin.prevLoss
    /\ spikes' = twin.spikes
    /\ spikeWindow_' = twin.spikeWindow_
    /\ passes' = twin.passes
    /\ lfStart' = twin.lfStart
    /\ nowHost' = twin.nowHost
    /\ wrapped' = twin.wrapped
    /\ UNCHANGED <<auxVars, shape, hpc, thr, firings, written, teacherWrote, scal, renorm, renormed,
                   rngFixed, teacherRate, exploreScale, rewardPasses, block, inBlock,
                   winCtr, haveTeach, haveRew,
                   hostSynapses_, modelFile, loadResult, stim, savedSyn>>

\* single-threaded traversal: a thread starts its event when no other is inside one
Sequential == \A r \in Threads : r.pc \in {"tick", "done"}

\* two engines just constructed on identical graphs, fixed device RNG, constant
\* stimulus; the process is new, or its earlier engines made 999 passes
InitTwin ==
    /\ shape = TwinShape
    /\ scal = KernelScalars
    /\ syn \in RandomGraphs(TwinShape)
    /\ savedSyn = syn
    /\ hostSynapses_ = ZeroSynapses(TwinShape.nSyn)
    /\ modelFile = SavedFile(TwinShape, hostSynapses_)
    /\ loadResult = FALSE
    /\ stim = ConstantStimulus
    /\ rngFixed = 0
    /\ clock = 0
    /\ lastFired = [i \in 0 .. (TwinShape.nNrn - 1) |-> 0]
    /\ lastVisited = [i \in 0 .. (TwinShape.nNrn - 1) |-> 0]
    /\ spikeBudget = 0
    /\ reward = 0
    /\ dev = [teacherRate |-> 1000, passFlag |-> PASS_TEACHER, exploreScale |-> 1000]
    /\ thr = EmptyBag
    /\ renorm = None
    /\ renormed = FALSE
    /\ hpc = "inject"
    /\ teacherRate = 1000
    /\ exploreScale = 1000
    /\ rewardPasses = 0
    /\ block = 0
    /\ inBlock \in {0, 999}
    /\ winCtr = inBlock
    /\ haveTeach = (inBlock > 0)
    /\ haveRew = FALSE
    /\ winPos_ = 0
    /\ lastLoss_ = 250 * LossSteps
    /\ prevLoss = 250 * LossSteps
    /\ spikes = [o \in 0 .. (TwinShape.nOut - 1) |-> FALSE]
    /\ AuxIdle
    /\ spikeWindow_ = [o \in 0 .. (TwinShape.nOut - 1) |-> 0]
    /\ passes = 0
    /\ firings = 0
    /\ written = {}
    /\ teacherWrote = {}
    /\ wrapped = FALSE
    /\ nowHost = 0
    /\ lfStart = lastFired
    /\ twin = CopyState

NextTwin ==
    \/ InjectInputs
    \/ TeacherAndEncode
    \/ \E r \in Threads : Sequential /\ EvTick(r)
    \/ \E r \in Threads : EvVisit(r)
    \/ \E r \in Threads : EvDecide(r)
    \/ \E r \in Threads : EvFire(r)
    \/ \E r \in Threads : EvPlast(r)
    \/ WaitUntilCompleted
    \/ ReadOutputs
    \/ PostProcess
    \/ SwitchCopy

SpecTwin == InitTwin /\ [][NextTwin]_vars

(* ------------------------------------------------------------------ *)
(* Random graph construction followed by traversal passes              *)
(* ------------------------------------------------------------------ *)
\* brains with a truncated dense prefix, and with several hidden neurons
GraphShapes ==
    {[nIn |-> 2, nOut |-> 2, nHidden |-> 1, nNrn |-> 5, nSyn |-> 3, events |-> 1],
     [nIn |-> 1, nOut |-> 1, nHidden |-> 2, nNrn |-> 4, nSyn |-> 2, events |-> 1]}

\* the engine's constructor on a brain of shape sh, no model.bnn on disk
InitBuild(sh) ==
    /\ FreshBrain(sh)
    /\ modelFile = NoFile
    /\ loadResult = FALSE
    /\ savedSyn = <<>>
    /\ hpc = "load"
    /\ scal = KernelScalars
    /\ spikeBudget = 0
    /\ reward = 0
    /\ dev = [teacherRate |-> 1000, passFlag |-> PASS_TEACHER, exploreScale |-> 1000]
    /\ thr = EmptyBag
    /\ renorm = None
    /\ renormed = FALSE
    /\ rngFixed = 0
    /\ teacherRate = 1000
    /\ exploreScale = 1000
    /\ rewardPasses = 0
    /\ block = 0
    /\ inBlock = 0
    /\ winCtr = 0
    /\ winPos_ = 0
    /\ haveTeach = FALSE
    /\ haveRew = FALSE
    /\ lastLoss_ = 250 * LossSteps
    /\ prevLoss = 250 * LossSteps
    /\ spikes = [o \in 0 .. (sh.nOut - 1) |-> FALSE]
    /\ spikeWindow_ = [o \in 0 .. (sh.nOut - 1) |-> 0]
    /\ AuxIdle
    /\ passes = 0
    /\ firings = 0
    /\ written = {}
    /\ teacherWrote = {}
    /\ wrapped = FALSE
    /\ nowHost = 0
    /\ lfStart = lastFired
    /\ stim = ConstantStimulus
    /\ twin = <<>>

InitGraph == \E sh \in GraphShapes : InitBuild(sh)

NextGraph ==
    \/ LoadModel
    \/ BuildRandomGraph
    \/ SaveModel
    \/ InjectInputs
    \/ TeacherAndEncode
    \/ \E r \in Threads : EvTick(r)
    \/ \E r \in Threads : EvVisit(r)
    \/ \E r \in Threads : EvDecide(r)
    \/ \E r \in Threads : EvFire(r)
    \/ \E r \in Threads : EvPlast(r)
    \/ WaitUntilCompleted
    \/ ReadOutputs
    \/ PostProcess

SpecGraph == InitGraph /\ [][NextGraph]_vars

(* ------------------------------------------------------------------ *)
(* Kernel-level scenarios: one traversal dispatch on a hand-built brain *)
(* ------------------------------------------------------------------ *)
\* the kernel is dispatched directly on a grid of exactly shape.events threads
S2Shape == [nIn |-> 2, nOut |-> 1, nHidden |-> 0, nNrn |-> 3, nSyn |-> 1, events |-> 1]
S2Scalars == [tauPre |-> tauScaled, tauVisit |-> tauScaled,
              alphaLTP |-> 100, alphaLTD |-> 50,
              wMin |-> 0, wMax |-> 1000, kMaxSpikes |-> 1]
S3Shape == [nIn |-> 1, nOut |-> 1, nHidden |-> 0, nNrn |-> 2, nSyn |-> 1, events |-> 3]

InitDispatch ==
    /\ spikeBudget = scal.kMaxSpikes
    /\ reward = 0
    /\ dev = [teacherRate |-> 1000, passFlag |-> PASS_TEACHER, exploreScale |-> 1000]
    /\ thr = [x \in {StartThread} |-> shape.events]
    /\ renorm = None
    /\ renormed = FALSE
    /\ hpc = "gpu"
    /\ teacherRate = 1000
    /\ exploreScale = 1000
    /\ rewardPasses = 0
    /\ block = 0
    /\ inBlock = 0
    /\ winCtr = 0
    /\ winPos_ = 0
    /\ haveTeach = FALSE
    /\ haveRew = FALSE
    /\ lastLoss_ = 250 * LossSteps
    /\ prevLoss = 250 * LossSteps
    /\ spikes = [o \in 0 .. (shape.nOut - 1) |-> FALSE]
    /\ AuxIdle
    /\ spikeWindow_ = [o \in 0 .. (shape.nOut - 1) |-> 0]
    /\ passes = 1
    /\ firings = 0
    /\ written = {}
    /\ teacherWrote = {}
    /\ wrapped = FALSE
    /\ nowHost = clock
    /\ lfStart = lastFired
    /\ hostSynapses_ = ZeroSynapses(shape.nSyn)
    /\ modelFile = NoFile
    /\ loadResult = FALSE
    /\ stim = FreeStimulus
    /\ savedSyn = syn
    /\ twin = <<>>

\* S2 and its neighbours: one event on the single edge 0 -> 2
InitS2 ==
    /\ shape = S2Shape
    /\ scal = S2Scalars
    /\ \E w \in {1000, 500, 0} : syn = <<[src |-> 0, dst |-> 2, w |-> w]>>
    /\ clock \in {1, 2 * tauScaled}
    /\ \E f \in {0, clock} : lastFired = [i \in 0 .. 2 |-> IF i = 0 THEN f ELSE 0]
    /\ \E v \in {0, clock} : lastVisited = [i \in 0 .. 2 |-> IF i = 2 THEN v ELSE 0]
    /\ rngFixed \in {0, 999}
    /\ InitDispatch

\* S3 and its neighbours: several events on the single edge 0 -> 1, budget 1
InitS3 ==
    /\ shape = S3Shape
    /\ scal = KernelScalars
    /\ syn = <<[src |-> 0, dst |-> 1, w |-> 1000]>>
    /\ clock = 0
    /\ lastFired = [i \in 0 .. 1 |-> 0]
    /\ lastVisited = [i \in 0 .. 1 |-> 0]
    /\ rngFixed \in {0, None}
    /\ InitDispatch

InitKernel == InitS2 \/ InitS3

NextKernel ==
    \/ \E r \in Threads : EvTick(r)
    \/ \E r \in Threads : EvVisit(r)
    \/ \E r \in Threads : EvDecide(r)
    \/ \E r \in Threads : EvFire(r)
    \/ \E r \in Threads : EvPlast(r)

SpecKernel == InitKernel /\ [][NextKernel]_vars

(* ------------------------------------------------------------------ *)
(* Renorm-level scenarios: one renorm dispatch on given timing state   *)
(* ------------------------------------------------------------------ *)
RenormStamps == {0, kRenormThreshold, kRenormThreshold + 50, kRenormThreshold + 100}

InitRenorm ==
    /\ shape = EngineShape
    /\ scal = KernelScalars
    /\ syn \in RandomGraphs(EngineShape)
    /\ clock \in {kRenormThreshold + 1, kRenormThreshold + 100}
    /\ lastFired \in [0 .. 2 -> RenormStamps]
    /\ lastVisited \in [0 .. 2 -> {0, kRenormThreshold}]
    /\ \A i \in 0 .. 2 : lastFired[i] <= clock /\ lastVisited[i] <= clock
    /\ rngFixed = None
    /\ spikeBudget = 0
    /\ reward = 0
    /\ dev = [teacherRate |-> 1000, passFlag |-> PASS_TEACHER, exploreScale |-> 1000]
    /\ thr = EmptyBag
    /\ renorm \in {clock, kRenormThreshold}
    /\ renormed = FALSE
    /\ hpc = "gpu"
    /\ teacherRate = 1000
    /\ exploreScale = 1000
    /\ rewardPasses = 0
    /\ block = 0
    /\ inBlock = 0
    /\ winCtr = 0
    /\ winPos_ = 0
    /\ haveTeach = FALSE
    /\ haveRew = FALSE
    /\ lastLoss_ = 250 * LossSteps
    /\ prevLoss = 250 * LossSteps
    /\ spikes = [o \in 0 .. (EngineShape.nOut - 1) |-> FALSE]
    /\ AuxIdle
    /\ spikeWindow_ = [o \in 0 .. (EngineShape.nOut - 1) |-> 0]
    /\ passes = 1
    /\ firings = 0
    /\ written = {}
    /\ teacherWrote = {}
    /\ wrapped = FALSE
    /\ nowHost = clock
    /\ lfStart = lastFired
    /\ hostSynapses_ = ZeroSynapses(shape.nSyn)
    /\ modelFile = NoFile
    /\ loadResult = FALSE
    /\ stim = FreeStimulus
    /\ savedSyn = syn
    /\ twin = <<>>

NextRenorm == Renormalise

SpecRenorm == InitRenorm /\ [][NextRenorm]_vars

(* ------------------------------------------------------------------ *)
(* Properties                                                          *)
(* ------------------------------------------------------------------ *)
HostPoint == hpc \in {"inject", "teacher", "read", "post"}

\* C1: in a traversal pass the number of events that store now into
\* lastFired is at most kMaxSpikes, for every interleaving.
BudgetBound == firings <= scal.kMaxSpikes

\* C2: after every pass, teacher or reward, every synapse weight lies in
\* [wMin, wMax].
WeightBounds ==
    HostPoint => \A k \in DOMAIN syn : scal.wMin <= syn[k].w /\ syn[k].w <= scal.wMax

WeightBoundsWitness ==
    /\ hpc = "read"
    /\ dev.passFlag = PASS_REWARD
    /\ reward < 0
    /\ \E k \in DOMAIN syn : syn[k].w = scal.wMin

\* C3: the now a thread obtained is at least the lastFired[src] and the
\* previous lastVisited[dst] it reads, so dtSpike and dtVisit never wrap.
NowNotBehind ==
    \A r \in Threads :
       r.pc = "decide" => r.now >= r.prev /\ r.now >= lastFired[syn[r.e].src]

\* C4: whenever the host reads the timing state, lastFired[i] <= clock and
\* lastVisited[i] <= clock for every neuron i, renormalising passes included.
HostReadsOrdered ==
    HostPoint => \A i \in Neurons : lastFired[i] <= clock /\ lastVisited[i] <= clock

HostReadsOrderedWitness ==
    /\ hpc = "read"
    /\ renormed
    /\ \E i \in Neurons : lastFired[i] > 0
    /\ \E i \in Neurons : lastVisited[i] > 0

\* C5: outside a renorm the clock never decreases; a renorm subtracts its
\* offset from the clock, keeps clock - lastFired[i] for every i with
\* lastFired[i] > offset, and leaves every lastFired[i] = 0 at 0.
RenormStep == renormed' /\ ~renormed

ClockMonotone ==
    [][/\ ~RenormStep => clock' >= clock
       /\ RenormStep =>
            /\ clock' = clock - renorm
            /\ \A i \in Neurons :
                 /\ lastFired[i] > renorm => clock' - lastFired'[i] = clock - lastFired[i]
                 /\ lastFired[i] = 0 => lastFired'[i] = 0]_vars

ClockMonotoneWitness ==
    /\ renormed
    /\ clock > 0
    /\ \E i \in Neurons : lastFired[i] > 0
    /\ \E i \in Neurons : lastFired[i] = 0 /\ lfStart[i] = 0

\* C6 (as stated): from clock = kRenormThreshold + 100 and lastFired =
\* [0, kRenormThreshold, kRenormThreshold + 50], renorm with offset = clock
\* ends with clock = 0 and lastFired = [0, 0, 50].
S4Ran ==
    /\ renormed
    /\ nowHost = kRenormThreshold + 100
    /\ renorm = nowHost
    /\ lfStart[0] = 0
    /\ lfStart[1] = kRenormThreshold
    /\ lfStart[2] = kRenormThreshold + 50

RenormS4Stated ==
    S4Ran => clock = 0 /\ lastFired[0] = 0 /\ lastFired[1] = 0 /\ lastFired[2] = 50

\* C6 (amended): the same renorm ends with clock = 0 and lastFired = [0, 0, 0].
RenormS4 ==
    S4Ran => clock = 0 /\ lastFired[0] = 0 /\ lastFired[1] = 0 /\ lastFired[2] = 0

RenormS4Witness == S4Ran /\ clock = 0 /\ lastFired[2] = 0

\* C7: scenario S2: the single event on edge 0 -> 2 (w = 1.0, lastFired[0] = 0,
\* clock = 1, uniform draw 0.0) fires, lastFired[2] becomes 2 and the weight
\* after the pass is 1.0.
S2Started ==
    /\ shape = S2Shape
    /\ scal = S2Scalars
    /\ dev.passFlag = PASS_TEACHER
    /\ rngFixed = 0
    /\ nowHost = 1
    /\ lfStart[0] = 0

ClockNeverWraps ==
    /\ ~wrapped
    /\ clock <= kRenormThreshold + 2 * DispatchThreads(shape.events)
    /\ (hpc \in {"gpu", "read", "post"} /\ nowHost > kRenormThreshold) => renorm # None

ClockNeverWrapsWitness ==
    /\ hpc = "read"
    /\ nowHost > kRenormThreshold
    /\ renormed
    /\ clock < nowHost

\* C9: read_outputs returns false for every output whose lastFired was 0 at
\* pass start and was not written during the pass.
NoSpuriousOutput ==
    hpc = "post" =>
       \A o \in Outputs :
          (lfStart[shape.nIn + o] = 0 /\ (shape.nIn + o) \notin written) => ~spikes[o]

NoSpuriousOutputWitness ==
    /\ hpc = "post"
    /\ renormed
    /\ \E o \in Outputs :
          lfStart[shape.nIn + o] = 0 /\ (shape.nIn + o) \notin written /\ ~spikes[o]

\* C10: teacher forcing writes lastFired[nIn + o] := clock only where
\* clock - lastFired[nIn + o] > 1 (unsigned) and never onto an entry that
\* already equals clock.
TeacherForcingGuarded ==
    \A o \in teacherWrote :
       /\ (nowHost - lfStart[shape.nIn + o]) % Modulus > 1
       /\ lfStart[shape.nIn + o] # nowHost

TeacherForcingGuardedWitness ==
    /\ hpc = "gpu"
    /\ nowHost > 0
    /\ teacherWrote # {}

\* C11: a save followed by a load into a fresh brain of identical shape leaves
\* the loaded brain's device synapse array equal to the saving brain's array
\* at the time of the save.
RoundTripPersistence ==
    (hpc = "inject" /\ loadResult /\ savedSyn # <<>>) => syn = savedSyn

\* C12: a model file whose header nSyn or nNeuron differs from the brain built
\* for the session is rejected: load_model returns false and the engine
\* continues with a freshly built random graph.
LoadRejectsMismatch ==
    (/\ hpc = "inject"
     /\ modelFile.exists
     /\ (modelFile.nSyn # PersistShape.nSyn \/ modelFile.nNrn # PersistShape.nNrn))
    => (~loadResult /\ syn \in RandomGraphs(PersistShape))

\* C13: once a brain is built no operation changes nIn, nOut, nHidden, nSyn
\* or the neuron count.
ShapeImmutable == [][hpc' # "load" => shape' = shape]_vars

(* ------------------------------------------------------------------ *)
(* Reward, teacher rate and explore scale over many passes             *)
(* ------------------------------------------------------------------ *)
\* a loss window has just completed and the pass has returned
WindowDone == hpc = "inject" /\ winPos_ = 0 /\ passes > 0

\* C15: whenever a loss window completes with a loss strictly smaller than the
\* previous window's loss, the reward before clipping is strictly positive,
\* whatever the teacher rate.
RewardDirection ==
    (WindowDone /\ lastLoss_ < prevLoss)
    => RewardRaw(prevLoss, lastLoss_, teacherRate) > 0

\* C16: the device reward scalar lies in [-rClip, rClip] and the divisor of the
\* reward is strictly positive; when a window of loss 1.0 is followed by a
\* window of loss 0.0 (scenario S5), the reward written is positive and at
\* most rClip.
RewardWithinClip ==
    /\ reward >= 0 - rClip
    /\ reward <= rClip
    /\ RewardDivisor(teacherRate) > 0
    /\ (WindowDone /\ prevLoss = 1000 * LossSteps /\ lastLoss_ = 0)
       => (reward > 0 /\ reward <= rClip)

RewardWithinClipWitness ==
    /\ WindowDone
    /\ passes = 2 * WIN_SIZE_
    /\ prevLoss = 1000 * LossSteps
    /\ lastLoss_ = 0
    /\ reward = rClip

\* C17: no step of run_one_pass leaves teacherRate larger than it was.
TeacherRateMonotone == [][teacherRate' <= teacherRate]_vars

\* C18: teacherRate is at least 0.05 when a pass returns.
TeacherRateFloor == [][(hpc = "post" /\ hpc' = "inject") => teacherRate' >= 50]_vars

\* C19: exploreScale stays within [kExploreFloor, 1], never increases, and
\* keeps the value 1 while the reward passes have not exceeded the warm-up.
ExploreScaleAnneal ==
    [][/\ exploreScale' <= exploreScale
       /\ exploreScale' >= kExploreFloor
       /\ exploreScale' <= 1000
       /\ (rewardPasses' <= ExploreWarmup => exploreScale' = 1000)]_vars

ExploreScaleAnnealWitness ==
    /\ hpc = "inject"
    /\ passes = MaxPasses
    /\ rewardPasses > ExploreWarmup
    /\ exploreScale = kExploreFloor
(* ------------------------------------------------------------------ *)
(* Order of one pass                                                   *)
(* ------------------------------------------------------------------ *)
\* a traversal thread or a chained renorm dispatch has not finished
InFlight(t, rn, rd) ==
    \/ \E r \in BagToSet(t) : r.pc # "done"
    \/ (rn # None /\ ~rd)

\* successive positions of the worker inside run_one_pass
PassSteps ==
    {<<"inject", "teacher">>, <<"teacher", "gpu">>, <<"gpu", "read">>,
     <<"read", "post">>, <<"post", "inject">>}

\* C20: the worker goes through inject_inputs, teacher forcing and publication
\* with submission, the wait, read_outputs and post-processing in this order;
\* whenever the host is out of the wait no traversal or renorm dispatch is in
\* flight; the reward scalar changes only in post-processing, after the
\* pass's dispatches completed and before the next submission.
PassOrder ==
    [][/\ (hpc' # hpc => <<hpc, hpc'>> \in PassSteps)
       /\ (hpc' # "gpu" => ~InFlight(thr', renorm', renormed'))
       /\ ((hpc # "gpu" /\ (lastFired' # lastFired \/ clock' # clock \/ reward' # reward))
              => ~InFlight(thr, renorm, renormed))
       /\ (reward' # reward => (hpc = "post" /\ hpc' = "inject"))]_vars

PassOrderWitness ==
    /\ hpc = "gpu"
    /\ passes = 2
    /\ dev.passFlag = PASS_REWARD
    /\ reward # 0
    /\ \E r \in Threads : r.pc = "done"
    /\ \E r \in Threads : r.pc # "done"
(* ------------------------------------------------------------------ *)
(* Determinism                                                         *)
(* ------------------------------------------------------------------ *)
\* C14: with eventsPerPass = 1, a fixed RNG and single-threaded traversal, two
\* copies of the engine started from identical graphs and timing state and
\* given identical inputs have identical weight arrays after the same number
\* of passes.
TwinWeightsEqual ==
    (hpc = "inject" /\ twin # <<>> /\ passes = twin.passes)
    => [k \in DOMAIN syn |-> syn[k].w] = [k \in DOMAIN twin.syn |-> twin.syn[k].w]
(* ------------------------------------------------------------------ *)
(* Worker thread life cycle                                            *)
(* ------------------------------------------------------------------ *)
\* positions of the worker inside run_one_pass, past its first statement
InPass == {"teacher", "gpu", "read", "post"}

\* what stop_async guarantees whatever the worker does after the store: it
\* returns only after the worker left its loop, the worker leaves its loop only
\* at a loop test that read running_ = false, and a pass once started goes
\* through all its steps
StopOrder ==
    [][/\ ((mpc = "join" /\ mpc' = "idle") => (hpc = "exited" /\ worker_' = 0))
       /\ (hpc' = "exited" => (hpc = "exited" \/ (hpc = "test" /\ ~running_)))
       /\ ((hpc \in InPass /\ hpc' # hpc)
              => (<<hpc, hpc'>> \in PassSteps \/ <<hpc, hpc'>> = <<"post", "test">>))]_vars

\* C21 (as stated): after stop_async has cleared running_ the worker completes
\* the pass in progress and starts no further pass; stop_async returns only
\* after the worker has exited, and it eventually returns; no pass is
\* interrupted midway.
StopStartsNoPass ==
    /\ StopOrder
    /\ [](mpc = "join" => passes = passesAtStop)
    /\ ((mpc = "join" /\ passes < MaxPasses) ~> (mpc = "idle"))

\* C21 (amended): after stop_async has cleared running_ the worker completes
\* the pass in progress and starts at most one further pass (the one whose loop
\* test read running_ before the store), which it completes too; stop_async
\* returns only after the worker has exited, and it eventually returns; no pass
\* is interrupted midway.
StopCompletes ==
    /\ StopOrder
    /\ [](mpc = "join" => passes <= passesAtStop + 1)
    /\ ((mpc = "join" /\ passes < MaxPasses) ~> (mpc = "idle"))

StopCompletesWitness ==
    /\ lastCall = "stop_async"
    /\ mpc = "idle"
    /\ worker_ = 0
    /\ ~running_
    /\ passesAtStop > 0
    /\ passes = passesAtStop + 1

\* C22: for any sequence of start_async and stop_async calls of the main thread
\* at most one worker thread runs run_one_pass, kernel work is submitted only
\* by that worker, and start_async while a worker is running or while no
\* stimulus is attached starts nothing.
SingleWorker ==
    [][/\ worker_' <= 1
       /\ ((hpc' \in InPass \cup {"test", "exited"}) => worker_' = 1)
       /\ ((hpc = "teacher" /\ hpc' = "gpu") => worker_ = 1)
       /\ ((calls' # calls /\ lastCall' = "start_async" /\ (running_ \/ stim = NoStimulus))
              => (worker_' = worker_ /\ running_' = running_ /\ hpc' = hpc /\ passes' = passes))]_vars

SingleWorkerWitness ==
    /\ lastCall = "start_async"
    /\ calls = MaxCalls
    /\ worker_ = 1
    /\ running_
    /\ passesAtStop > 0
    /\ passes > passesAtStop
    /\ hpc = "gpu"

(* ------------------------------------------------------------------ *)
(* RateFilter convergence                                              *)
(* ------------------------------------------------------------------ *)
Dist(a, b) == IF a >= b THEN a - b ELSE b - a

\* r2 lies between r and x, ends included
Toward(r, r2, x) ==
    /\ IsFinite(r2)
    /\ Dist(r2, x) <= Dist(r, x)
    /\ (r <= x => (r <= r2 /\ r2 <= x))
    /\ (r >= x => (x <= r2 /\ r2 <= r))

\* C23 (as stated): in a process call with dt > 0 and tau > 0 each component
\* of the IIR state moves toward raw without overshooting it, starting from any
\* finite state; the first call initialises the state to raw.
FilterMonotone ==
    [][IF rate_ = <<>>
       THEN rate_' = raw'
       ELSE \A i \in DOMAIN rate_ :
               IsFinite(rate_[i]) => Toward(rate_[i], rate_'[i], raw'[i])]_vars

\* C23 (amended): the same for calls with dt <= tau whose difference
\* raw - r is a finite float.
FilterMonotoneFinite ==
    [][IF rate_ = <<>>
       THEN rate_' = raw'
       ELSE \A i \in DOMAIN rate_ :
               (/\ IsFinite(rate_[i])
                /\ dtSec' <= tau_
                /\ IsFinite(FSub(raw'[i], rate_[i])))
               => Toward(rate_[i], rate_'[i], raw'[i])]_vars

FilterMonotoneFiniteWitness ==
    /\ Len(firHist_) = firSize_
    /\ dtSec = dT_SEC
    /\ firHist_[firSize_] = rate_
    /\ firHist_[firSize_ - 1][1] < rate_[1]
    /\ rate_[1] < raw[1]
    /\ IsFinite(FSub(raw[1], firHist_[firSize_ - 1][1]))

(* ------------------------------------------------------------------ *)
(* CPU reference loop against the kernel's rules                       *)
(* ------------------------------------------------------------------ *)
\* the two-branch plasticity rule: LTP below tauPre, LTD otherwise, clamped
TwoBranchRule(w, dtSpike) ==
    Clamp(IF dtSpike < cpuTauPrePost
          THEN w + MulMilli(cpuAlphaLTP, cpuWMax - w)
          ELSE w - MulMilli(cpuAlphaLTD, w - cpuWMin),
          cpuWMin, cpuWMax)

\* C24: stepCPU applies the two-branch plasticity rule to the selected edge of
\* each event it processes, according to that event's dtSpike, and changes no
\* other edge's weight.
CpuTwoBranch ==
    [][cpuNow' = cpuNow + 1 =>
          \A k \in DOMAIN hostSynapses_ :
             hostSynapses_'[k].w =
                IF k = cpuEvent'.k
                THEN TwoBranchRule(hostSynapses_[k].w, cpuEvent'.dtSpike)
                ELSE hostSynapses_[k].w]_vars

HoldingNow == {r \in Threads : r.pc \in {"visit", "decide", "fire"}}

\* C26: in a traversal pass every executed event obtains a distinct now from
\* the atomic clock increment, and when the pass completes without
\* renormalisation the clock equals its pre-pass value plus the number of event
\* threads dispatched, eventsPerPass rounded up to a multiple of the
\* thread-group size.
ClockCountsThreads ==
    /\ \A r \in HoldingNow :
          /\ CopiesIn(r, thr) = 1
          /\ r.now > nowHost
          /\ r.now <= clock
          /\ \A q \in HoldingNow : q # r => q.now # r.now
    /\ (hpc \in {"read", "post"} /\ renorm = None) =>
          /\ clock - nowHost >= shape.events
          /\ clock - nowHost < shape.events + THREADGROUP_SIZE
          /\ (clock - nowHost) % THREADGROUP_SIZE = 0

ClockCountsThreadsWitness ==
    /\ hpc = "read"
    /\ renorm = None
    /\ passes > 0
    /\ firings > 0
    /\ clock - nowHost > shape.events

(* ------------------------------------------------------------------ *)
(* Loss window                                                         *)
(* ------------------------------------------------------------------ *)
\* the per-output counters stay within the window size
SpikeWindowBounded == \A o \in Outputs : spikeWindow_[o] <= WIN_SIZE_

\* C27: at the end of every pass 0 <= winPos < W_LOSS; on the pass where
\* winPos reaches W_LOSS the window is reset, winPos = 0 and every
\* spikeWindow[o] = 0, so spikeWindow[o] <= W_LOSS in every reachable state.
WindowReset ==
    /\ (hpc = "inject" => (winPos_ >= 0 /\ winPos_ < WIN_SIZE_))
    /\ (WindowDone => \A o \in Outputs : spikeWindow_[o] = 0)
    /\ SpikeWindowBounded

(* ------------------------------------------------------------------ *)
(* Shape of the random graph                                           *)
(* ------------------------------------------------------------------ *)
\* edges of the dense input->output prefix
DensePrefix == Min(shape.nSyn, shape.nIn * shape.nOut)

\* C28: after random graph construction on a brain with nHidden >= 1 every
\* edge has src < N and dst < N; the first min(nSyn, nIn*nOut) edges are the
\* dense pairs (src = i, dst = nIn + o) in row-major order of (i, o), every
\* remaining edge has both endpoints in the hidden range, and every initial
\* weight lies in [wMin, wMax]; the traversal kernel never changes src or dst.
GraphWellFormed ==
    savedSyn # <<>> =>
       /\ Len(savedSyn) = shape.nSyn
       /\ shape.nHidden >= 1
       /\ N = shape.nNrn
       /\ \A k \in DOMAIN savedSyn :
             /\ savedSyn[k].src >= 0 /\ savedSyn[k].src < N
             /\ savedSyn[k].dst >= 0 /\ savedSyn[k].dst < N
             /\ savedSyn[k].w >= scal.wMin /\ savedSyn[k].w <= scal.wMax
             /\ k <= DensePrefix =>
                   \E i \in Inputs, o \in Outputs :
                      /\ k - 1 = (i * shape.nOut) + o
                      /\ savedSyn[k].src = i
                      /\ savedSyn[k].dst = shape.nIn + o
             /\ k > DensePrefix =>
                   /\ savedSyn[k].src >= shape.nIn + shape.nOut
                   /\ savedSyn[k].dst >= shape.nIn + shape.nOut
             /\ syn[k].src = savedSyn[k].src
             /\ syn[k].dst = savedSyn[k].dst

GraphWellFormedWitness ==
    /\ hpc = "read"
    /\ passes = 2
    /\ shape.nIn * shape.nOut > shape.nSyn
    /\ \E k \in DOMAIN syn : syn[k].w # savedSyn[k].w
    /\ savedSyn[3].src = 1
    /\ savedSyn[3].dst = 2

(* ------------------------------------------------------------------ *)
(* Reward passes are permanent                                         *)
(* ------------------------------------------------------------------ *)
\* C29: once a pass has passFlag = PASS_REWARD every later pass is a reward
\* pass: no step of run_one_pass raises teacherRate above 0.05 again, and
\* rewardPasses increases by exactly one at every later flag decision.
RewardPermanent ==
    [][dev.passFlag = PASS_REWARD =>
          /\ dev'.passFlag = PASS_REWARD
          /\ teacherRate' <= 50
          /\ (hpc = "teacher" => rewardPasses' = rewardPasses + 1)
          /\ (hpc # "teacher" => rewardPasses' = rewardPasses)]_vars

RewardPermanentWitness ==
    /\ hpc = "gpu"
    /\ passes = (2 * WIN_SIZE_) + 1
    /\ dev.passFlag = PASS_REWARD
    /\ teacherRate = 50
    /\ Target(block, inBlock) > 50
    /\ rewardPasses = WIN_SIZE_ + 1

(* ------------------------------------------------------------------ *)
(* Sequences returned by the crawler                                   *)
(* ------------------------------------------------------------------ *)
\* C30: every string returned by getRandomSequence has exactly
\* sequenceLength_ + 1 characters, for every start index of the sampling
\* range and every loadable file, so loadData's assertion on the number of
\* tokens holds on every batch.
SequenceLengthExact ==
    (crawlPc = "ready" /\ currentSampleCount_ > 0) =>
        /\ randomIndex \in Distribution(currentFileContent_)
        /\ Len(sequence) = sequenceLength_ + 1
        /\ Len(tokenIds) = sequenceLength_ + 1

====
